---- MODULE Spec2Model ----
(***************************************************************************)
(* The multipart video upload flow of SimplifiedCoursesService             *)
(* (initiateVideoUpload, getPresignedPartUrls, recordUploadedPart,         *)
(* completeVideoUpload, abortVideoUpload) over the upload session          *)
(* collection, one course document and the S3 multipart adapter.           *)
(*                                                                         *)
(* Every handler is an async function: it runs atomically between two      *)
(* awaits and other handlers may run at each await.  A handler is split    *)
(* into one action per await; the first action is the invocation together  *)
(* with the first database read.                                           *)
(***************************************************************************)
EXTENDS Integers, Sequences, FiniteSets, TLC

VARIABLES
    sessions,   \* the upload session collection; a session's id is its index
    videos,     \* the videos array of the course document
    s3,         \* the multipart uploads of the object store; an upload's id is its index
    procs,      \* the handler each request slot is running, with its locals
    calls,      \* the handler invocations so far
    last,       \* what the latest step returned or threw, if it ended a handler
    completion, \* per session, the response of the call that first completed it
    courses     \* the ids of the course collection's documents

vars == <<sessions, videos, s3, procs, calls, last, completion, courses>>

(* ------------------------------ bounds -------------------------------- *)

\* upload session documents ever created
MaxSessions == 2
\* largest totalParts of a session
MaxParts == 2
\* largest duration, in half seconds, given to the duration resolver alone
MaxDuration == 5
\* handler invocations in one behaviour; also the clock read by new Date()
MaxCalls == 4

(* ----------------------------- constants ------------------------------ *)

\* 5 * 1024 * 1024 * 1024 bytes; file sizes are counted in MiB
MaxFileSize == 5120

\* 5 * 1024 * 1024 bytes, the least partSize
MinPartSize == 5

Procs == {"p1", "p2"}

\* "ins" is the instructor of the course, "adm" an admin, "oth" another instructor
Users == {"ins", "adm", "oth"}

Role(u) == IF u = "adm" THEN "admin" ELSE "instructor"

\* "c1" is the id of the one course document, "c2" an id with no document
CourseIds == {"c1", "c2"}

CourseInstructor == "ins"

Tags == {"a", "b"}

allowedMimeTypes == {"video/mp4", "video/webm", "video/ogg", "video/mov", "video/avi", "video/quicktime"}

MimeTypes == {"video/mp4", "image/png"}

FileSizes == {1, MaxFileSize + 1}

INITIATED == "initiated"
UPLOADING == "uploading"
COMPLETED == "completed"
ABORTED == "aborted"
FAILED == "failed"

VideoUploadStatus == {INITIATED, UPLOADING, COMPLETED, ABORTED, FAILED}

\* an optional value (null / undefined in the source) is <<>> or <<value>>
None == <<>>

Some(x) == <<x>>

IsSome(o) == Len(o) = 1

Get(o) == o[1]

(* --------------------------- pure functions --------------------------- *)

RECURSIVE InsertPart(_, _)
\* insert part x into the list s, sorted by partNumber, after its equals
InsertPart(x, s) ==
    IF s = <<>> THEN <<x>>
    ELSE IF x.partNumber < Head(s).partNumber THEN <<x>> \o s
    ELSE <<Head(s)>> \o InsertPart(x, Tail(s))

RECURSIVE SortParts(_)
\* payload.parts.slice().sort((a, b) => a.partNumber - b.partNumber): stable
SortParts(s) ==
    IF s = <<>> THEN <<>>
    ELSE InsertPart(s[Len(s)], SortParts(SubSeq(s, 1, Len(s) - 1)))

PartNumbersOf(s) == {s[i].partNumber : i \in 1..Len(s)}

\* mutant: the check that the sorted numbers are 1, 2, ... is left out
ValidatePartsNoSequence(parts, totalParts) ==
    IF Cardinality(PartNumbersOf(parts)) # Len(parts) THEN "duplicate"
    ELSE IF totalParts # Len(parts) THEN "count"
    ELSE "ok"

\* the outcome of the validation of a parts list, in the order of the code
ValidateParts(parts, totalParts) ==
    IF Cardinality(PartNumbersOf(parts)) # Len(parts) THEN "duplicate"
    ELSE IF totalParts # Len(parts) THEN "count"
    ELSE IF ~(\A i \in 1..Len(parts) : SortParts(parts)[i].partNumber = i)
         THEN "sequence"
    ELSE "ok"

\* the position of partNumber in uploadedParts, 0 when absent (Array.find)
FindPart(uploadedParts, partNumber) ==
    IF \E i \in 1..Len(uploadedParts) : uploadedParts[i].partNumber = partNumber
    THEN CHOOSE i \in 1..Len(uploadedParts) :
            /\ uploadedParts[i].partNumber = partNumber
            /\ \A j \in 1..(i - 1) : uploadedParts[j].partNumber # partNumber
    ELSE 0

\* Durations are numbers of seconds that need not be whole; they are counted
\* in half seconds here (5 is 2.5 s).  Math.round gives the nearest whole
\* number of seconds, the upper one for a half: floor(x + 0.5)
MathRound(h) == 2 * ((h + 1) \div 2)

\* mutant: the session's duration is looked at before the explicit one
resolveVideoDurationSessionFirst(session, providedDuration) ==
    IF ~session.autoDetectDuration /\ IsSome(session.providedDuration)
    THEN MathRound(Get(session.providedDuration))
    ELSE IF IsSome(providedDuration) /\ Get(providedDuration) > 0
    THEN MathRound(Get(providedDuration))
    ELSE IF IsSome(session.resolvedDuration) /\ Get(session.resolvedDuration) > 0
    THEN MathRound(Get(session.resolvedDuration))
    ELSE 0

resolveVideoDuration(session, providedDuration) ==
    IF IsSome(providedDuration) /\ Get(providedDuration) > 0
    THEN MathRound(Get(providedDuration))
    ELSE IF ~session.autoDetectDuration /\ IsSome(session.providedDuration)
    THEN MathRound(Get(session.providedDuration))
    ELSE IF IsSome(session.resolvedDuration) /\ Get(session.resolvedDuration) > 0
    THEN MathRound(Get(session.resolvedDuration))
    ELSE 0

buildCompletedUploadResponse(sid, session, video) ==
    [sessionId     |-> sid,
     status        |-> session.status,
     video         |-> video,
     duration      |-> IF IsSome(video) THEN Some(Get(video).duration)
                       ELSE session.resolvedDuration,
     uploadedParts |-> session.uploadedParts,
     completedAt   |-> session.completedAt]

(* ------------------------------- state -------------------------------- *)

IdleProc ==
    [op |-> "none", pc |-> "idle", user |-> "ins", cid |-> "c1", sid |-> 0,
     doc |-> None, parts |-> <<>>,
     dur |-> None, video |-> None, pay |-> None, upl |-> 0, mod |-> {}]

\* the latest step ended no handler
NoResult == [op |-> "none", sid |-> 0, res |-> "none", resp |-> None]

\* courseModel.findById(cid) finds a document
CourseExists(cid) == cid \in courses

Init ==
    /\ courses = {"c1"}
    /\ sessions = <<>>
    /\ videos = <<>>
    /\ s3 = <<>>
    /\ procs = [p \in Procs |-> IdleProc]
    /\ calls = 0
    /\ last = NoResult
    /\ completion = <<>>

\* the handler of p returns or throws: its locals are dropped
Finish(p, op, sid, res, resp) ==
    /\ procs' = [procs EXCEPT ![p] = IdleProc]
    /\ last' = [op |-> op, sid |-> sid, res |-> res, resp |-> resp]

\* the handler of p goes on to its next await with the locals rec
Continue(p, rec) ==
    /\ procs' = [procs EXCEPT ![p] = rec]
    /\ last' = NoResult

\* a request takes the first free slot
CanCall(p) ==
    /\ procs[p].pc = "idle"
    /\ calls < MaxCalls
    /\ p = "p2" => procs["p1"].pc # "idle"

SessionIds == 1..Len(sessions)

ActiveStatuses == {INITIATED, UPLOADING}

\* the document of session sid is in the collection: the TTL index on
\* expiresAt has not removed it
Stored(sid) == sessions[sid].ttl # "removed"

\* mutant: the lookup matches Initiated sessions only
existingInitiatedSession(cid, user) ==
    \E i \in SessionIds :
        /\ Stored(i)
        /\ sessions[i].course = cid
        /\ sessions[i].instructor = user
        /\ sessions[i].status = INITIATED

\* uploadSessionModel.findOne({course, instructor, status: {$in: [...]}})
existingActiveSession(cid, user) ==
    \E i \in SessionIds :
        /\ Stored(i)
        /\ sessions[i].course = cid
        /\ sessions[i].instructor = user
        /\ sessions[i].status \in ActiveStatuses

\* mutant: the check of the caller is left out
assertUploadSessionOwnershipNoCaller(cid, sid, user) ==
    IF sid \notin SessionIds \/ ~Stored(sid) THEN "NotFound"
    ELSE IF sessions[sid].course # cid THEN "BadRequest"
    ELSE "ok"

\* the outcome of assertUploadSessionOwnership
assertUploadSessionOwnership(cid, sid, user) ==
    IF sid \notin SessionIds \/ ~Stored(sid) THEN "NotFound"
    ELSE IF sessions[sid].course # cid THEN "BadRequest"
    ELSE IF sessions[sid].instructor # user /\ Role(user) # "admin" THEN "Forbidden"
    ELSE "ok"

(* ------------------------- initiateVideoUpload ------------------------ *)

\* (autoDetectDuration, duration) of an initiate payload: detection asked
\* for, a duration of 2.5 s given, and a flag set to false with no duration,
\* with a zero one and with a negative one
DurationPolicies ==
    {<<Some(TRUE), None>>, <<Some(FALSE), Some(5)>>,
     <<Some(FALSE), None>>, <<Some(FALSE), Some(0)>>, <<Some(FALSE), Some(-3)>>}

PartSizes == {MinPartSize - 1, MinPartSize}

InitiatePayloads ==
    {[mimeType |-> m, fileSize |-> f, partSize |-> ps, totalParts |-> n,
      autoDetectDuration |-> d[1], duration |-> d[2]] :
        m \in MimeTypes, f \in FileSizes, ps \in PartSizes, n \in 0..MaxParts,
        d \in DurationPolicies}

\* mutant: the DTO carries no @IsPositive on duration
ValidInitiateDtoNoPositive(payload) ==
    /\ payload.fileSize >= 1 /\ payload.fileSize <= MaxFileSize
    /\ payload.mimeType # ""
    /\ payload.partSize >= MinPartSize
    /\ payload.totalParts >= 1
    /\ ~(IsSome(payload.autoDetectDuration) /\ Get(payload.autoDetectDuration))
            => IsSome(payload.duration)

\* mutant: the DTO carries no @Min on partSize
ValidInitiateDtoNoPartSize(payload) ==
    /\ payload.fileSize >= 1 /\ payload.fileSize <= MaxFileSize
    /\ payload.mimeType # ""
    /\ payload.totalParts >= 1
    /\ ~(IsSome(payload.autoDetectDuration) /\ Get(payload.autoDetectDuration))
            => (IsSome(payload.duration) /\ Get(payload.duration) > 0)

\* the validators of InitiateVideoUploadDto, which the global ValidationPipe
\* applies to the request body before the handler runs; duration is
\* validated only when autoDetectDuration is not truthy (@ValidateIf)
ValidInitiateDto(payload) ==
    /\ payload.fileSize >= 1 /\ payload.fileSize <= MaxFileSize
    /\ payload.mimeType # ""
    /\ payload.partSize >= MinPartSize
    /\ payload.totalParts >= 1
    /\ ~(IsSome(payload.autoDetectDuration) /\ Get(payload.autoDetectDuration))
            => (IsSome(payload.duration) /\ Get(payload.duration) > 0)

\* the validators of the schema, which uploadSessionModel.create runs
SchemaValid(payload) ==
    /\ payload.partSize >= MinPartSize
    /\ payload.totalParts >= 1

InitiatesInFlight == Cardinality({q \in Procs : procs[q].op = "initiate"})

\* the new session document of uploadSessionModel.create
NewSession(cid, user, payload, uploadId) ==
    [course             |-> cid,
     instructor         |-> user,
     initiatorRole      |-> Role(user),
     totalParts         |-> payload.totalParts,
     uploadId           |-> uploadId,
     status             |-> INITIATED,
     autoDetectDuration |-> IF IsSome(payload.autoDetectDuration)
                            THEN Get(payload.autoDetectDuration) ELSE TRUE,
     providedDuration   |-> IF IsSome(payload.autoDetectDuration)
                               /\ Get(payload.autoDetectDuration)
                            THEN None ELSE payload.duration,
     resolvedDuration   |-> None,
     uploadedParts      |-> <<>>,
     errorMessage       |-> None,
     completedAt        |-> None,
     ttl                |-> "live",
     v                  |-> 0]

\* the handler called by user for course cid with a body that passed the
\* validation: the mime check, courseModel.findById and the checks on the course
InitiateBy(p, payload, user, cid) ==
    IF payload.mimeType \notin allowedMimeTypes
    THEN Finish(p, "initiate", 0, "UnsupportedType", None)
    ELSE IF ~CourseExists(cid)
    THEN Finish(p, "initiate", 0, "NotFound", None)
    ELSE IF Role(user) # "admin" /\ CourseInstructor # user
    THEN Finish(p, "initiate", 0, "Forbidden", None)
    ELSE IF payload.fileSize > MaxFileSize
    THEN Finish(p, "initiate", 0, "FileTooLarge", None)
    ELSE Continue(p, [IdleProc EXCEPT !.op = "initiate", !.pc = "init_find",
                                      !.user = user, !.cid = cid,
                                      !.pay = Some(payload)])

\* the call: the validation of the body, then the handler
InitiateStart(p) ==
    /\ CanCall(p)
    /\ Len(s3) + InitiatesInFlight < MaxSessions
    /\ calls' = calls + 1
    /\ \/ IF \E payload \in InitiatePayloads : ~ValidInitiateDto(payload)
          THEN Finish(p, "initiate", 0, "ValidationError", None)
          ELSE FALSE
       \/ \E payload \in {x \in InitiatePayloads : ValidInitiateDto(x)},
             user \in Users, cid \in CourseIds :
           InitiateBy(p, payload, user, cid)
    /\ UNCHANGED <<courses, sessions, videos, s3, completion>>

\* uploadSessionModel.findOne for an active session, and the conflict check
InitiateFind(p) ==
    /\ procs[p].pc = "init_find"
    /\ IF existingActiveSession(procs[p].cid, procs[p].user)
       THEN Finish(p, "initiate", 0, "Conflict", None)
       ELSE Continue(p, [procs[p] EXCEPT !.pc = "init_s3"])
    /\ UNCHANGED <<courses, sessions, videos, s3, calls, completion>>

\* s3Service.initiateMultipartUpload answers with a fresh upload id
InitiateS3Ok(p) ==
    /\ procs[p].pc = "init_s3"
    /\ s3' = Append(s3, [state |-> "open", completeCalls |-> 0, abortCalls |-> 0])
    /\ Continue(p, [procs[p] EXCEPT !.pc = "init_create", !.upl = Len(s3) + 1])
    /\ UNCHANGED <<courses, sessions, videos, calls, completion>>

\* mutant: the session is created before the adapter is called, and stays
\* when the adapter throws
InitiateS3FailPersists(p) ==
    /\ procs[p].pc = "init_s3"
    /\ sessions' = Append(sessions,
            NewSession(procs[p].cid, procs[p].user, Get(procs[p].pay), 0))
    /\ completion' = Append(completion, None)
    /\ Finish(p, "initiate", 0, "StorageError", None)
    /\ UNCHANGED <<courses, videos, s3, calls>>

\* s3Service.initiateMultipartUpload throws
InitiateS3Fail(p) ==
    /\ procs[p].pc = "init_s3"
    /\ Finish(p, "initiate", 0, "StorageError", None)
    /\ UNCHANGED <<courses, sessions, videos, s3, calls, completion>>

\* uploadSessionModel.create, which validates the document against the schema
\* and inserts it; then the handler returns
InitiateCreate(p) ==
    /\ procs[p].pc = "init_create"
    /\ IF SchemaValid(Get(procs[p].pay))
       THEN /\ sessions' = Append(sessions,
                    NewSession(procs[p].cid, procs[p].user, Get(procs[p].pay), procs[p].upl))
            /\ completion' = Append(completion, None)
            /\ Finish(p, "initiate", Len(sessions) + 1, "ok", None)
       ELSE /\ Finish(p, "initiate", 0, "ValidationError", None)
            /\ UNCHANGED <<sessions, completion>>
    /\ UNCHANGED <<courses, videos, s3, calls>>

(* ------------------------ session document saves ---------------------- *)

\* mutant: the status set on the document is not saved
SaveStatusNothing(sid, doc) ==
    sessions

\* session.save() of a document whose modified paths are plain fields:
\* updateOne({_id}, {$set: the modified fields}); other fields keep the
\* stored value
SaveStatus(sid, doc) ==
    [sessions EXCEPT ![sid].status = doc.status]

\* mutant: the completion is saved without the status
SaveCompletedNoStatus(sid, doc) ==
    [sessions EXCEPT ![sid].completedAt = doc.completedAt,
                     ![sid].resolvedDuration = doc.resolvedDuration]

SaveCompleted(sid, doc) ==
    [sessions EXCEPT ![sid].status = doc.status,
                     ![sid].completedAt = doc.completedAt,
                     ![sid].resolvedDuration = doc.resolvedDuration]

\* mutant: the abort is saved without its error message
SaveAbortedNoMessage(sid, doc) ==
    [sessions EXCEPT ![sid].status = doc.status]

SaveAborted(sid, doc) ==
    [sessions EXCEPT ![sid].status = doc.status,
                     ![sid].errorMessage = doc.errorMessage]

\* a session as the handler holds it after uploadSessionModel.findById
Snapshot(sid) == sessions[sid]

(* ------------------------- getPresignedPartUrls ----------------------- *)

PartNumbers == (-1)..(MaxParts + 1)

\* the requested lists: none, one or two different part numbers
PartNumberLists ==
    {<<>>} \cup {<<a>> : a \in PartNumbers}
           \cup {l \in {<<a, b>> : a \in PartNumbers, b \in PartNumbers} : l[1] < l[2]}

\* @ArrayMaxSize(100)
ArrayMaxSize == 100

\* the validators of PartNumberRequestDto: an array, not empty, of at most 100
\* elements; nothing is asked of the elements
ValidPartNumberRequestDto(partNumbers) ==
    Len(partNumbers) >= 1 /\ Len(partNumbers) <= ArrayMaxSize

\* payload.partNumbers.find(n => n < 1 || n > totalParts): <<>> when none
invalidPart(partNumbers, totalParts) ==
    LET bad == {i \in 1..Len(partNumbers) :
                    partNumbers[i] < 1 \/ partNumbers[i] > totalParts}
    IN  IF bad = {} THEN None
        ELSE Some(partNumbers[CHOOSE i \in bad : \A j \in bad : i <= j])

\* if (invalidPart): a number is truthy unless it is 0
Truthy(o) == IsSome(o) /\ Get(o) # 0

\* the handler's result: one signed URL per requested part number
urlsResponse(sid, partNumbers) == [sessionId |-> sid, parts |-> partNumbers]

\* the handler called by user for session sid of course cid: the checks and
\* the signing of the part URLs, which touches neither the store nor the
\* collection; the status read decides the save
UrlsBy(p, user, cid, sid) ==
    LET own == assertUploadSessionOwnership(cid, sid, user)
    IN  IF own # "ok" THEN Finish(p, "urls", sid, own, None)
        ELSE IF sessions[sid].status = COMPLETED
        THEN Finish(p, "urls", sid, "AlreadyCompleted", None)
        ELSE \E partNumbers \in PartNumberLists :
             /\ ValidPartNumberRequestDto(partNumbers)
             /\ IF Truthy(invalidPart(partNumbers, sessions[sid].totalParts))
                THEN Finish(p, "urls", sid, "InvalidPart", None)
                ELSE IF sessions[sid].status = INITIATED
                THEN Continue(p, [IdleProc EXCEPT
                                 !.op = "urls", !.pc = "urls_save",
                                 !.user = user, !.cid = cid, !.sid = sid,
                                 !.parts = [i \in 1..Len(partNumbers) |->
                                     [partNumber |-> partNumbers[i], eTag |-> ""]],
                                 !.doc = Some([Snapshot(sid) EXCEPT !.status = UPLOADING])])
                ELSE Finish(p, "urls", sid, "ok", Some(urlsResponse(sid, partNumbers)))

\* the call: the validation of the body, then the handler
UrlsStart(p) ==
    /\ CanCall(p)
    /\ calls' = calls + 1
    /\ \/ IF \E partNumbers \in PartNumberLists :
                    ~ValidPartNumberRequestDto(partNumbers)
          THEN Finish(p, "urls", 0, "ValidationError", None)
          ELSE FALSE
       \/ \E user \in Users, cid \in CourseIds, sid \in 0..Len(sessions) :
           UrlsBy(p, user, cid, sid)
    /\ UNCHANGED <<courses, sessions, videos, s3, completion>>

\* session.save(); it throws when the document is no longer in the collection
UrlsSave(p) ==
    /\ procs[p].pc = "urls_save"
    /\ IF Stored(procs[p].sid)
       THEN /\ sessions' = SaveStatus(procs[p].sid, Get(procs[p].doc))
            /\ Finish(p, "urls", procs[p].sid, "ok",
                    Some(urlsResponse(procs[p].sid,
                            [i \in 1..Len(procs[p].parts) |-> procs[p].parts[i].partNumber])))
       ELSE /\ sessions' = sessions
            /\ Finish(p, "urls", procs[p].sid, "DocumentNotFound", None)
    /\ UNCHANGED <<courses, videos, s3, calls, completion>>

(* -------------------------- recordUploadedPart ------------------------ *)

\* the document after the handler's changes
RecordLocal(doc, partNumber, eTag) ==
    LET i == FindPart(doc.uploadedParts, partNumber)
        d1 == IF doc.status = INITIATED THEN [doc EXCEPT !.status = UPLOADING] ELSE doc
    IN  IF i # 0
        THEN [d1 EXCEPT !.uploadedParts[i].eTag = eTag]
        ELSE [d1 EXCEPT !.uploadedParts =
                    Append(@, [partNumber |-> partNumber, eTag |-> eTag])]

\* the paths the handler modified on the document it read
RecordModified(doc, partNumber) ==
    (IF doc.status = INITIATED THEN {"status"} ELSE {})
        \cup (IF FindPart(doc.uploadedParts, partNumber) # 0 THEN {"set"} ELSE {"push"})

\* the validators of RecordUploadedPartDto (partSize is optional and the
\* handler does not read it)
ValidRecordUploadedPartDto(partNumber, eTag) ==
    partNumber >= 1 /\ eTag # ""

\* mutant: the range check has no upper limit
PartNumberAtLeastOne(partNumber, totalParts) ==
    ~(partNumber < 1)

\* the handler's range check on payload.partNumber
PartNumberInRange(partNumber, totalParts) ==
    ~(partNumber < 1 \/ partNumber > totalParts)

\* the handler's result, built from the document it holds
recordResponse(sid, doc) ==
    [sessionId      |-> sid,
     uploadedParts  |-> doc.uploadedParts,
     remainingParts |-> doc.totalParts - Len(doc.uploadedParts)]

\* the handler called by user for session sid of course cid, up to its save
RecordBy(p, user, cid, sid) ==
    LET own == assertUploadSessionOwnership(cid, sid, user)
    IN  IF own # "ok" THEN Finish(p, "record", sid, own, None)
        ELSE IF sessions[sid].status = COMPLETED
        THEN Finish(p, "record", sid, "AlreadyCompleted", None)
        ELSE \E partNumber \in PartNumbers, eTag \in Tags :
             /\ ValidRecordUploadedPartDto(partNumber, eTag)
             /\ IF ~PartNumberInRange(partNumber, sessions[sid].totalParts)
                THEN Finish(p, "record", sid, "InvalidPart", None)
                ELSE Continue(p, [IdleProc EXCEPT
                     !.op = "record", !.pc = "rec_save",
                     !.user = user, !.cid = cid, !.sid = sid,
                     !.doc = Some(RecordLocal(Snapshot(sid), partNumber, eTag)),
                     !.parts = <<[partNumber |-> partNumber, eTag |-> eTag]>>,
                     !.mod = RecordModified(Snapshot(sid), partNumber)])

\* the call: the validation of the body, then the handler
RecordStart(p) ==
    /\ CanCall(p)
    /\ calls' = calls + 1
    /\ \/ IF \E partNumber \in PartNumbers, eTag \in Tags :
                    ~ValidRecordUploadedPartDto(partNumber, eTag)
          THEN Finish(p, "record", 0, "ValidationError", None)
          ELSE FALSE
       \/ \E user \in Users, cid \in CourseIds, sid \in 0..Len(sessions) :
           RecordBy(p, user, cid, sid)
    /\ UNCHANGED <<courses, sessions, videos, s3, completion>>

\* mutant: the save writes the whole array the handler holds
RecordSaveWholeArray(sid, doc, part, mod) ==
    [sessions EXCEPT
        ![sid].uploadedParts = doc.uploadedParts,
        ![sid].v = @ + 1,
        ![sid].status = IF "status" \in mod THEN doc.status ELSE @]

\* session.save() of a pushed part: {$push: {uploadedParts}, $inc: {__v: 1}},
\* with the status when it was modified; no version in the filter
RecordSavePush(sid, doc, part, mod) ==
    [sessions EXCEPT
        ![sid].uploadedParts = Append(@, part),
        ![sid].v = @ + 1,
        ![sid].status = IF "status" \in mod THEN doc.status ELSE @]

\* session.save() of a changed element: {$set: {"uploadedParts.<i>.eTag"}}
\* on the position found at the read, filtered by the version read
RecordSaveSet(sid, doc, part, mod) ==
    [sessions EXCEPT
        ![sid].uploadedParts[FindPart(doc.uploadedParts, part.partNumber)].eTag = part.eTag,
        ![sid].status = IF "status" \in mod THEN doc.status ELSE @]

RecordSave(p) ==
    /\ procs[p].pc = "rec_save"
    /\ LET r == procs[p]
           doc == Get(r.doc)
       IN  IF ~Stored(r.sid)
           THEN /\ sessions' = sessions
                /\ Finish(p, "record", r.sid, "DocumentNotFound", None)
           ELSE IF "push" \in r.mod
           THEN /\ sessions' = RecordSavePush(r.sid, doc, r.parts[1], r.mod)
                /\ Finish(p, "record", r.sid, "ok", Some(recordResponse(r.sid, doc)))
           ELSE IF sessions[r.sid].v = doc.v
           THEN /\ sessions' = RecordSaveSet(r.sid, doc, r.parts[1], r.mod)
                /\ Finish(p, "record", r.sid, "ok", Some(recordResponse(r.sid, doc)))
           ELSE /\ sessions' = sessions
                /\ Finish(p, "record", r.sid, "VersionError", None)
    /\ UNCHANGED <<courses, videos, s3, calls, completion>>

(* ------------------------- completeVideoUpload ------------------------ *)

\* the part number lists of a completion payload, up to one part too many
PartNumberSeqs ==
    UNION {[1..n -> 0..(MaxParts + 1)] : n \in 0..(MaxParts + 1)}

\* a completion payload's parts: the listed numbers, each with the tag t
PayloadParts(ns, t) ==
    [i \in 1..Len(ns) |-> [partNumber |-> ns[i], eTag |-> t]]

\* no duration, 0 s, 4.5 s and a negative one
PayloadDurations == {None, Some(0), Some(9), Some(-1)}

\* the validators of CompleteVideoUploadDto and CompleteUploadPartDto
ValidCompleteVideoUploadDto(parts, duration) ==
    /\ Len(parts) >= 1
    /\ \A i \in 1..Len(parts) : parts[i].partNumber >= 1 /\ parts[i].eTag # ""
    /\ IsSome(duration) => Get(duration) >= 0

\* the exception of a parts list that fails the validation
PartsError(valid) ==
    IF valid = "duplicate" THEN "DuplicateParts"
    ELSE IF valid = "count" THEN "IncompleteParts"
    ELSE "NonSequentialParts"

\* the handler called by user for session sid of course cid: the lookup of the
\* session, the replay on a Completed session, the validation of the parts and
\* the request to the store, which is sent in the same turn: completeCalls
\* counts the requests sent
CompleteBy(p, user, cid, sid) ==
    /\ LET own == assertUploadSessionOwnership(cid, sid, user)
       IN  IF own # "ok" THEN Finish(p, "complete", sid, own, None)
           ELSE IF sessions[sid].status = COMPLETED
           THEN Finish(p, "complete", sid, "ok",
                 Some(buildCompletedUploadResponse(sid, Snapshot(sid), None)))
           ELSE \E ns \in PartNumberSeqs :
             /\ ValidCompleteVideoUploadDto(PayloadParts(ns, "a"), None)
             /\ LET valid == ValidateParts(PayloadParts(ns, "a"), sessions[sid].totalParts)
                IN  IF valid # "ok"
                    THEN Finish(p, "complete", sid, PartsError(valid), None)
                    ELSE \E t \in Tags, duration \in PayloadDurations :
                         /\ ValidCompleteVideoUploadDto(PayloadParts(ns, t), duration)
                         /\ Continue(p, [IdleProc EXCEPT
                             !.op = "complete", !.pc = "cmp_s3",
                             !.user = user, !.cid = cid, !.sid = sid,
                             !.doc = Some(Snapshot(sid)),
                             !.parts = SortParts(PayloadParts(ns, t)),
                             !.dur = duration])
    /\ s3' = IF procs'[p].pc = "cmp_s3"
             THEN [s3 EXCEPT ![sessions[sid].uploadId].completeCalls = @ + 1]
             ELSE s3

\* the call: the validation of the body, then the handler
CompleteStart(p) ==
    /\ CanCall(p)
    /\ calls' = calls + 1
    /\ \/ IF \E ns \in PartNumberSeqs, duration \in PayloadDurations :
                    ~ValidCompleteVideoUploadDto(PayloadParts(ns, "a"), duration)
          THEN Finish(p, "complete", 0, "ValidationError", None) /\ s3' = s3
          ELSE FALSE
       \/ \E user \in Users, cid \in CourseIds, sid \in 0..Len(sessions) :
           CompleteBy(p, user, cid, sid)
    /\ UNCHANGED <<courses, sessions, videos, completion>>

\* the store answers the completion with success: on an open upload, or on
\* one it has completed for a request that overlapped or preceded this one
\* (it refuses with NoSuchUpload or answers again); then the duration is
\* resolved from the document read at the start
CompleteS3Ok(p) ==
    /\ procs[p].pc = "cmp_s3"
    /\ LET u == Get(procs[p].doc).uploadId
       IN  /\ s3[u].state \in {"open", "completed"}
           /\ s3' = [s3 EXCEPT ![u].state = "completed"]
    /\ Continue(p, [procs[p] EXCEPT
            !.pc = "cmp_course",
            !.dur = Some(resolveVideoDuration(Get(procs[p].doc), procs[p].dur))])
    /\ UNCHANGED <<courses, sessions, videos, calls, completion>>

\* mutant: the handler marks the session Failed when the adapter throws
CompleteS3FailMarksFailed(p) ==
    /\ procs[p].pc = "cmp_s3"
    /\ sessions' = [sessions EXCEPT ![procs[p].sid].status = FAILED]
    /\ Finish(p, "complete", procs[p].sid, "StorageError", None)
    /\ UNCHANGED <<courses, videos, s3, calls, completion>>

\* s3Service.completeMultipartUpload throws
CompleteS3Fail(p) ==
    /\ procs[p].pc = "cmp_s3"
    /\ Finish(p, "complete", procs[p].sid, "StorageError", None)
    /\ UNCHANGED <<courses, sessions, videos, s3, calls, completion>>

\* mutant: the video's order is the number of videos, not that number + 1
CompleteCourseOrderFromZero(p) ==
    /\ procs[p].pc = "cmp_course"
    /\ LET r == procs[p]
       IN  IF ~CourseExists(r.cid)
           THEN Finish(p, "complete", r.sid, "NotFound", None)
           ELSE IF Role(r.user) # "admin" /\ CourseInstructor # r.user
           THEN Finish(p, "complete", r.sid, "Forbidden", None)
           ELSE Continue(p, [r EXCEPT
                    !.pc = "cmp_csave",
                    !.video = Some([videoKey |-> Get(r.doc).uploadId,
                                    duration |-> Get(r.dur),
                                    order    |-> Len(videos)])])
    /\ UNCHANGED <<courses, sessions, videos, s3, calls, completion>>

\* courseModel.findById, the checks on the course, and the video built from it
CompleteCourse(p) ==
    /\ procs[p].pc = "cmp_course"
    /\ LET r == procs[p]
       IN  IF ~CourseExists(r.cid)
           THEN Finish(p, "complete", r.sid, "NotFound", None)
           ELSE IF Role(r.user) # "admin" /\ CourseInstructor # r.user
           THEN Finish(p, "complete", r.sid, "Forbidden", None)
           ELSE Continue(p, [r EXCEPT
                    !.pc = "cmp_csave",
                    !.video = Some([videoKey |-> Get(r.doc).uploadId,
                                    duration |-> Get(r.dur),
                                    order    |-> Len(videos) + 1])])
    /\ UNCHANGED <<courses, sessions, videos, s3, calls, completion>>

\* course.save() of the pushed video: {$push: {videos}}; then the handler
\* sets status, completedAt and resolvedDuration on its document
CompleteCourseSave(p) ==
    /\ procs[p].pc = "cmp_csave"
    /\ IF CourseExists(procs[p].cid)
       THEN /\ videos' = Append(videos, Get(procs[p].video))
            /\ Continue(p, [procs[p] EXCEPT
                    !.pc = "cmp_ssave",
                    !.doc = Some([Get(procs[p].doc) EXCEPT
                                    !.status = COMPLETED,
                                    !.completedAt = Some(calls),
                                    !.resolvedDuration = procs[p].dur])])
       ELSE \* the document is gone: save() updates nothing and throws
            /\ videos' = videos
            /\ Finish(p, "complete", procs[p].sid, "DocumentNotFound", None)
    /\ UNCHANGED <<courses, sessions, s3, calls, completion>>

\* session.save(), then the handler returns the response with its video
CompleteSessionSave(p) ==
    /\ procs[p].pc = "cmp_ssave"
    /\ LET r == procs[p]
           resp == Some(buildCompletedUploadResponse(r.sid, Get(r.doc), r.video))
       IN  IF Stored(r.sid)
           THEN /\ sessions' = SaveCompleted(r.sid, Get(r.doc))
                /\ completion' = IF IsSome(completion[r.sid]) THEN completion
                                 ELSE [completion EXCEPT ![r.sid] = resp]
                /\ Finish(p, "complete", r.sid, "ok", resp)
           ELSE /\ UNCHANGED <<sessions, completion>>
                /\ Finish(p, "complete", r.sid, "DocumentNotFound", None)
    /\ UNCHANGED <<courses, videos, s3, calls>>

(* --------------------------- abortVideoUpload ------------------------- *)

\* the handler called by user for session sid of course cid: the lookup of the
\* session, the check of its status and the request to the store: abortCalls
\* counts the requests sent
AbortBy(p, user, cid, sid) ==
    /\ LET own == assertUploadSessionOwnership(cid, sid, user)
       IN  IF own # "ok" THEN Finish(p, "abort", sid, own, None)
           ELSE IF sessions[sid].status = COMPLETED
           THEN Finish(p, "abort", sid, "AlreadyCompleted", None)
           ELSE Continue(p, [IdleProc EXCEPT
                                !.op = "abort", !.pc = "ab_s3",
                                !.user = user, !.cid = cid, !.sid = sid,
                                !.doc = Some(Snapshot(sid))])
    /\ s3' = IF procs'[p].pc = "ab_s3"
             THEN [s3 EXCEPT ![sessions[sid].uploadId].abortCalls = @ + 1]
             ELSE s3

\* the call of the handler; the request has no body
AbortStart(p) ==
    /\ CanCall(p)
    /\ calls' = calls + 1
    /\ \E user \in Users, cid \in CourseIds, sid \in 0..Len(sessions) :
        AbortBy(p, user, cid, sid)
    /\ UNCHANGED <<courses, sessions, videos, completion>>

\* mutant: the abort is answered with success whatever became of the upload
AbortS3OkAnyState(p) ==
    /\ procs[p].pc = "ab_s3"
    /\ LET u == Get(procs[p].doc).uploadId
       IN  s3' = [s3 EXCEPT ![u].state = "aborted"]
    /\ Continue(p, [procs[p] EXCEPT
            !.pc = "ab_save",
            !.doc = Some([Get(procs[p].doc) EXCEPT
                            !.status = ABORTED,
                            !.errorMessage = Some("Upload aborted by user")])])
    /\ UNCHANGED <<courses, sessions, videos, calls, completion>>

\* the store answers the abort with success; the handler sets status and
\* errorMessage on its document
AbortS3Ok(p) ==
    /\ procs[p].pc = "ab_s3"
    /\ LET u == Get(procs[p].doc).uploadId
       IN  /\ s3[u].state \in {"open", "aborted"}
           /\ s3' = [s3 EXCEPT ![u].state = "aborted"]
    /\ Continue(p, [procs[p] EXCEPT
            !.pc = "ab_save",
            !.doc = Some([Get(procs[p].doc) EXCEPT
                            !.status = ABORTED,
                            !.errorMessage = Some("Upload aborted by user")])])
    /\ UNCHANGED <<courses, sessions, videos, calls, completion>>

\* s3Service.abortMultipartUpload throws
AbortS3Fail(p) ==
    /\ procs[p].pc = "ab_s3"
    /\ Finish(p, "abort", procs[p].sid, "StorageError", None)
    /\ UNCHANGED <<courses, sessions, videos, s3, calls, completion>>

AbortSave(p) ==
    /\ procs[p].pc = "ab_save"
    /\ IF Stored(procs[p].sid)
       THEN /\ sessions' = SaveAborted(procs[p].sid, Get(procs[p].doc))
            /\ Finish(p, "abort", procs[p].sid, "ok", None)
       ELSE /\ sessions' = sessions
            /\ Finish(p, "abort", procs[p].sid, "DocumentNotFound", None)
    /\ UNCHANGED <<courses, videos, s3, calls, completion>>

(* ------------------------------- remove ------------------------------- *)

\* the handler called by user for course cid: courseModel.findById and the
\* checks on the course
RemoveBy(p, user, cid) ==
    IF ~CourseExists(cid)
    THEN Finish(p, "remove", 0, "NotFound", None)
    ELSE IF Role(user) # "admin" /\ CourseInstructor # user
    THEN Finish(p, "remove", 0, "Forbidden", None)
    ELSE Continue(p, [IdleProc EXCEPT !.op = "remove", !.pc = "rm_delete",
                                      !.user = user, !.cid = cid])

\* the call of the handler; the request has no body
RemoveStart(p) ==
    /\ CanCall(p)
    /\ calls' = calls + 1
    /\ \E user \in Users, cid \in CourseIds : RemoveBy(p, user, cid)
    /\ UNCHANGED <<courses, sessions, videos, s3, completion>>

\* enrollmentModel.deleteMany, then courseModel.findByIdAndDelete: the course
\* document goes with its videos; the upload sessions of the course stay
RemoveDelete(p) ==
    /\ procs[p].pc = "rm_delete"
    /\ courses' = courses \ {procs[p].cid}
    /\ videos' = <<>>
    /\ Finish(p, "remove", 0, "ok", None)
    /\ UNCHANGED <<sessions, s3, calls, completion>>

(* ------------------------ expiry of the sessions ---------------------- *)

\* the clock passes the expiresAt of session sid, 24 hours after its creation
ExpiresAtPasses(sid) ==
    /\ sid \in SessionIds
    /\ sessions[sid].ttl = "live"
    /\ sessions' = [sessions EXCEPT ![sid].ttl = "expired"]
    /\ last' = NoResult
    /\ UNCHANGED <<courses, videos, s3, procs, calls, completion>>

\* mutant: the removal of an expired session aborts its upload at the store
ReapExpiredAbortsUpload(sid) ==
    /\ sid \in SessionIds
    /\ sessions[sid].ttl = "expired"
    /\ sessions' = [sessions EXCEPT ![sid].ttl = "removed"]
    /\ s3' = [s3 EXCEPT ![sessions[sid].uploadId].state = "aborted",
                        ![sessions[sid].uploadId].abortCalls = @ + 1]
    /\ last' = NoResult
    /\ UNCHANGED <<courses, videos, procs, calls, completion>>

\* the TTL index on expiresAt (expireAfterSeconds: 0): the database deletes
\* the document of an expired session, whatever its status, and nothing else
ReapExpired(sid) ==
    /\ sid \in SessionIds
    /\ sessions[sid].ttl = "expired"
    /\ sessions' = [sessions EXCEPT ![sid].ttl = "removed"]
    /\ last' = NoResult
    /\ UNCHANGED <<courses, videos, s3, procs, calls, completion>>

(* --------------------------- specifications --------------------------- *)

Step(p) ==
    \/ InitiateStart(p)
    \/ InitiateFind(p)
    \/ InitiateS3Ok(p)
    \/ InitiateS3Fail(p)
    \/ InitiateCreate(p)
    \/ UrlsStart(p)
    \/ UrlsSave(p)
    \/ RecordStart(p)
    \/ RecordSave(p)
    \/ CompleteStart(p)
    \/ CompleteS3Ok(p)
    \/ CompleteS3Fail(p)
    \/ CompleteCourse(p)
    \/ CompleteCourseSave(p)
    \/ CompleteSessionSave(p)
    \/ AbortStart(p)
    \/ AbortS3Ok(p)
    \/ AbortS3Fail(p)
    \/ AbortSave(p)

\* handlers of concurrent requests interleave at their awaits
Next == \E p \in Procs : Step(p)

Spec == Init /\ [][Next]_vars

\* requests served one after the other: a single slot, so a handler runs
\* from its call to its return with no step of another handler in between
NextSeq == Step("p1")

SpecSeq == Init /\ [][NextSeq]_vars

\* the upload handlers and the deletion of the course, served one after the
\* other
NextCourse ==
    \/ Step("p1")
    \/ RemoveStart("p1")
    \/ RemoveDelete("p1")

SpecCourse == Init /\ [][NextCourse]_vars

\* the upload handlers, served one after the other, with the expiry of the
\* sessions; the database's TTL monitor runs again and again, so an expired
\* document cannot stay for ever
NextExpiry ==
    \/ Step("p1")
    \/ \E sid \in 1..MaxSessions : ExpiresAtPasses(sid)
    \/ \E sid \in 1..MaxSessions : ReapExpired(sid)

SpecExpiry ==
    /\ Init
    /\ [][NextExpiry]_vars
    /\ \A sid \in 1..MaxSessions : WF_vars(ReapExpired(sid))

(* resolveVideoDuration alone: one session whose duration fields are drawn
   from the values initiateVideoUpload and completeVideoUpload can store, and
   one call of the resolver with an explicit duration the DTO lets through *)

\* providedDuration as stored: null, or the positive duration of the payload
StoredDurations == {None} \cup {Some(d) : d \in 1..MaxDuration}

\* resolvedDuration as stored: null, or a result of the resolver
StoredResolved == {None} \cup {Some(MathRound(d)) : d \in 0..MaxDuration}

\* the duration of a completion payload: none, or a number that is not
\* negative
ExplicitDurations == {None} \cup {Some(d) : d \in 0..MaxDuration}

InitDuration ==
    /\ \E a \in BOOLEAN, pd \in StoredDurations, rd \in StoredResolved :
        /\ ~a => IsSome(pd)
        /\ sessions = <<[NewSession("c1", "ins",
                            [mimeType |-> "video/mp4", fileSize |-> 1,
                             partSize |-> MinPartSize, totalParts |-> 1,
                             autoDetectDuration |-> Some(a), duration |-> pd], 1)
                         EXCEPT !.autoDetectDuration = a,
                                !.providedDuration = pd,
                                !.resolvedDuration = rd]>>
    /\ courses = {"c1"}
    /\ videos = <<>>
    /\ s3 = <<[state |-> "open", completeCalls |-> 0, abortCalls |-> 0]>>
    /\ procs = [p \in Procs |-> IdleProc]
    /\ calls = 0
    /\ last = NoResult
    /\ completion = <<None>>

\* one call of the resolver: the result is kept with its explicit argument
ResolveDuration ==
    /\ calls = 0
    /\ calls' = 1
    /\ \E d \in ExplicitDurations :
        last' = [op |-> "resolve", sid |-> 1, res |-> "ok",
                 resp |-> Some([explicit |-> d,
                                duration |-> resolveVideoDuration(sessions[1], d)])]
    /\ UNCHANGED <<courses, sessions, videos, s3, procs, completion>>

NextDuration == ResolveDuration

SpecDuration == InitDuration /\ [][NextDuration]_vars

(* ------------------------------- claims ------------------------------- *)

Terminal == {"completed", "aborted", "failed"}

NonTerminal == {"initiated", "uploading"}

\* the sessions of (cid, user) that are Initiated or Uploading
ActiveSessionsOf(cid, user) ==
    {i \in 1..Len(sessions) :
        /\ sessions[i].course = cid
        /\ sessions[i].instructor = user
        /\ sessions[i].status \in NonTerminal}

\* C1: in every reachable state, interleaved initiate calls included, at most
\* one session of a (course, instructor) is Initiated or Uploading.
C1_AtMostOneActive ==
    \A cid \in CourseIds, user \in Users : Cardinality(ActiveSessionsOf(cid, user)) <= 1

\* C2: served without interleaving, an initiate that succeeds adds exactly one
\* session, Initiated and with no uploaded part, and changes no other; an
\* initiate that finds an Initiated or Uploading session of its (course,
\* instructor) ends with Conflict, having created no session and opened no
\* multipart upload; no other outcome of initiate creates a session.
C2_InitiateOnce ==
    [][LET r == procs["p1"]
       IN  /\ (r.op = "initiate" \/ last'.op = "initiate") =>
                IF last'.op = "initiate" /\ last'.res = "ok"
                THEN /\ Len(sessions') = Len(sessions) + 1
                     /\ SubSeq(sessions', 1, Len(sessions)) = sessions
                     /\ last'.sid = Len(sessions')
                     /\ sessions'[Len(sessions')].status = "initiated"
                     /\ sessions'[Len(sessions')].uploadedParts = <<>>
                ELSE sessions' = sessions
           /\ (r.pc = "init_find" /\ ActiveSessionsOf(r.cid, r.user) # {}) =>
                /\ last'.op = "initiate" /\ last'.res = "Conflict"
                /\ r.upl = 0
                /\ s3' = s3
                /\ sessions' = sessions
           /\ r.pc \in {"init_s3", "init_create"} => ActiveSessionsOf(r.cid, r.user) = {}
      ]_vars

\* a second initiate was rejected while the first session was still active
C2_Witness ==
    /\ last.op = "initiate"
    /\ last.res = "Conflict"
    /\ \E i \in 1..Len(sessions) :
        sessions[i].status \in NonTerminal /\ sessions[i].uploadedParts = <<>>

\* the parts recorded on session sid are exactly 1..totalParts, each once
RecordedExact(sid) ==
    LET up == sessions[sid].uploadedParts
    IN  /\ Len(up) = sessions[sid].totalParts
        /\ {up[i].partNumber : i \in 1..Len(up)} = 1..sessions[sid].totalParts

\* the rejections of a completion's parts list
PartsErrors == {"DuplicateParts", "IncompleteParts", "NonSequentialParts"}

\* C3: completeUpload succeeds only if the parts recorded on the session are
\* exactly 1..totalParts, each once (the "only if" half of the claim: with
\* any other recorded set the call must fail).
C3_CompleteIffRecorded ==
    (last.op = "complete" /\ last.sid \in 1..Len(sessions) /\ last.res = "ok") =>
        RecordedExact(last.sid)

\* the list is exactly the parts 1..n in order
ValidList(parts, n) ==
    /\ Len(parts) = n
    /\ \A i \in 1..n : parts[i].partNumber = i

\* this step sent the store a request to complete an upload
CompletionInvoked ==
    \E u \in 1..Len(s3) : s3'[u].completeCalls # s3[u].completeCalls

\* C4: a completeUpload on a session that is not Completed goes on to the
\* adapter only with a list that, sorted, is exactly 1..totalParts (no
\* duplicate, no gap, the right length); a call rejected for its parts
\* changes no session, no video and nothing on the adapter; the adapter's
\* completion and the append of a video happen only in a call whose list
\* passed; and a call returns success only as the replay on a Completed
\* session or at the end of a call whose list passed.
C4_InvalidPartsRejected ==
    [][/\ \A p \in Procs :
            procs'[p].op = "complete" =>
                ValidList(procs'[p].parts, Get(procs'[p].doc).totalParts)
       /\ (last'.op = "complete" /\ last'.res \in PartsErrors) =>
            /\ sessions' = sessions
            /\ videos' = videos
            /\ s3' = s3
       /\ CompletionInvoked =>
            \E p \in Procs :
                /\ procs[p].pc = "idle" /\ procs'[p].op = "complete"
                /\ sessions[procs'[p].sid].status # "completed"
                /\ ValidList(procs'[p].parts, sessions[procs'[p].sid].totalParts)
       /\ videos' # videos =>
            \E p \in Procs :
                /\ procs[p].op = "complete"
                /\ ValidList(procs[p].parts, sessions[procs[p].sid].totalParts)
       /\ (last'.op = "complete" /\ last'.res = "ok") =>
            \/ sessions[last'.sid].status = "completed"
            \/ \E p \in Procs :
                /\ procs[p].op = "complete" /\ procs[p].pc = "cmp_ssave"
                /\ procs[p].sid = last'.sid
                /\ procs'[p].pc = "idle"
      ]_vars

\* a list with the right length and no duplicate, but not 1..totalParts, was
\* rejected on a session that is Initiated or Uploading
C4_Witness ==
    /\ last.op = "complete"
    /\ last.res = "NonSequentialParts"
    /\ sessions[last.sid].status \in NonTerminal

\* the videos of the course appended for session sid
VideosOf(sid) == {i \in 1..Len(videos) : videos[i].videoKey = sessions[sid].uploadId}

\* C5: when two completeUpload calls on the same session interleave, only one
\* of them invokes the adapter's completion and appends a Video: two calls
\* are never both past the validation (where the request to the adapter is
\* sent) on the same session, and the session has at most one Video.
C5_OneCompletion ==
    /\ \A sid \in 1..Len(sessions) : Cardinality(VideosOf(sid)) <= 1
    /\ ~ \E p \in Procs, q \in Procs :
            /\ p # q
            /\ procs[p].op = "complete" /\ procs[q].op = "complete"
            /\ procs[p].sid = procs[q].sid

\* the outcomes of a call that did not get past the lookup of its session
LookupErrors == {"NotFound", "BadRequest", "Forbidden"}

\* C6: once a completeUpload on a session has succeeded, a later completeUpload
\* on it (requests served one after the other) returns at once with success,
\* and leaves the course's videos, every session and the adapter unchanged.
C6_ReplayChangesNothing ==
    [][/\ \A sid \in 1..Len(sessions) :
            (IsSome(completion[sid]) /\ last'.op = "complete" /\ last'.sid = sid
                /\ last'.res \notin LookupErrors) =>
                /\ last'.res = "ok"
                /\ videos' = videos
                /\ sessions' = sessions
                /\ s3' = s3
       /\ \A p \in Procs :
            (procs'[p].op = "complete" /\ procs'[p].sid \in 1..Len(sessions)) =>
                ~IsSome(completion[procs'[p].sid])
      ]_vars

\* a completeUpload has returned the replay response of a Completed session
C6_Witness ==
    /\ last.op = "complete"
    /\ last.res = "ok"
    /\ IsSome(completion[last.sid])
    /\ last.resp # completion[last.sid]

\* C7: a completeUpload on a session that is already Completed returns what
\* the call that completed it returned: the same video, duration, uploaded
\* parts and completedAt.
C7_ReplaySameResult ==
    (last.op = "complete" /\ last.res = "ok" /\ IsSome(completion[last.sid])) =>
        LET a == Get(last.resp)
            b == Get(completion[last.sid])
        IN  /\ a.video = b.video
            /\ a.duration = b.duration
            /\ a.uploadedParts = b.uploadedParts
            /\ a.completedAt = b.completedAt

\* C8: a session that is Completed, Aborted or Failed keeps that status.
C8_TerminalStatusKept ==
    [][\A sid \in 1..Len(sessions) :
            sessions[sid].status \in Terminal =>
                sessions'[sid].status = sessions[sid].status]_vars

\* C9: once abortUpload has saved a session as Aborted (it then carries the
\* abort's error message), every later getPartUploadUrls and
\* recordUploadedPart on it fails, and its status and uploadedParts stay.
C9_NoMutationAfterAbort ==
    [][\A sid \in 1..Len(sessions) :
            IsSome(sessions[sid].errorMessage) =>
                /\ sessions'[sid].status = sessions[sid].status
                /\ sessions'[sid].uploadedParts = sessions[sid].uploadedParts
                /\ ~(last'.op \in {"urls", "record"} /\ last'.sid = sid
                        /\ last'.res = "ok")]_vars

\* C10: while a session is Aborted or Failed (requests served one after the
\* other), no completeUpload sends the adapter a completion for it, appends a
\* Video for it or makes it Completed.
C10_NoCompleteAfterAbort ==
    [][\A sid \in 1..Len(sessions) :
            sessions[sid].status \in {"aborted", "failed"} =>
                LET u == sessions[sid].uploadId
                IN  /\ s3'[u].completeCalls = s3[u].completeCalls
                    /\ Cardinality({i \in 1..Len(videos') : videos'[i].videoKey = u})
                         = Cardinality(VideosOf(sid))
                    /\ sessions'[sid].status # "completed"]_vars

\* this step is the start of a call of handler op on session sid that got
\* past the lookup of the session
Called(op, sid) ==
    /\ calls' = calls + 1
    /\ \/ last'.op = op /\ last'.sid = sid /\ last'.res \notin LookupErrors
       \/ \E p \in Procs : procs[p].op = "none" /\ procs'[p].op = op /\ procs'[p].sid = sid

\* C11: an abortUpload on a session that is Completed fails with
\* AlreadyCompleted, sends the adapter nothing and leaves every session and
\* the course's videos unchanged; an abortUpload whose adapter abort succeeded
\* goes on to save, and when it returns the session is Aborted and carries an
\* error message.
C11_AbortOnCompleted ==
    [][/\ \A sid \in 1..Len(sessions) :
            (Called("abort", sid) /\ sessions[sid].status = "completed") =>
                /\ last'.op = "abort" /\ last'.res = "AlreadyCompleted"
                /\ s3' = s3
                /\ sessions' = sessions
                /\ videos' = videos
       /\ \A sid \in 1..Len(sessions) :
            (Called("abort", sid) /\ sessions[sid].status \in NonTerminal) =>
                \E p \in Procs :
                    /\ procs'[p].op = "abort" /\ procs'[p].sid = sid
                    /\ s3'[sessions[sid].uploadId].abortCalls
                            = s3[sessions[sid].uploadId].abortCalls + 1
       /\ \A p \in Procs :
            (procs[p].op = "abort" /\ procs'[p].op = "abort") =>
                /\ s3'[sessions[procs[p].sid].uploadId].state = "aborted"
                /\ sessions' = sessions
       /\ \A p \in Procs :
            (procs[p].op = "abort" /\ procs[p].pc = "ab_save") =>
                /\ last'.op = "abort" /\ last'.res = "ok" /\ last'.sid = procs[p].sid
                /\ sessions'[procs[p].sid].status = "aborted"
                /\ IsSome(sessions'[procs[p].sid].errorMessage)
       /\ (last'.op = "abort" /\ last'.res = "ok") =>
            /\ sessions'[last'.sid].status = "aborted"
            /\ IsSome(sessions'[last'.sid].errorMessage)
      ]_vars

\* an abortUpload has been rejected on a Completed session, which still has
\* its video
C11_Witness ==
    /\ last.op = "abort"
    /\ last.res = "AlreadyCompleted"
    /\ sessions[last.sid].status = "completed"
    /\ IsSome(sessions[last.sid].resolvedDuration)
    /\ IsSome(sessions[last.sid].completedAt)
    /\ Cardinality(VideosOf(last.sid)) = 1

\* C12: getPartUploadUrls fails whenever a requested part number is outside
\* 1..totalParts, 0 and negative numbers included: no call gets past its
\* checks, to the signing of the URLs and the save of the status, with such a
\* number in its list, and none returns URLs for one.
C12_UrlsRangeChecked ==
    /\ \A p \in Procs :
            procs[p].op = "urls" =>
                \A i \in 1..Len(procs[p].parts) :
                    procs[p].parts[i].partNumber \in 1..sessions[procs[p].sid].totalParts
    /\ (last.op = "urls" /\ last.res = "ok") =>
            \A i \in 1..Len(Get(last.resp).parts) :
                Get(last.resp).parts[i] \in 1..sessions[last.sid].totalParts

\* the rejections of a request for its arguments
ArgumentErrors == {"ValidationError", "InvalidPart"}

\* every entry of the list has its partNumber in 1..n
PartsInRange(parts, n) ==
    \A i \in 1..Len(parts) : parts[i].partNumber \in 1..n

\* C13: recordUploadedPart goes past its checks only with a part number in
\* 1..totalParts, a call rejected for its part number leaves every session
\* unchanged, and every entry of every session's uploadedParts has its
\* partNumber in 1..totalParts.
C13_RecordedPartsInRange ==
    [][/\ \A p \in Procs :
            procs'[p].op = "record" =>
                PartsInRange(procs'[p].parts, sessions'[procs'[p].sid].totalParts)
       /\ (last'.op = "record" /\ last'.res \in ArgumentErrors) => sessions' = sessions
       /\ \A sid \in 1..Len(sessions') :
            PartsInRange(sessions'[sid].uploadedParts, sessions'[sid].totalParts)
      ]_vars

\* a recordUploadedPart was rejected by the handler's range check on a session
\* that has a recorded part
C13_Witness ==
    /\ last.op = "record"
    /\ last.res = "InvalidPart"
    /\ sessions[last.sid].uploadedParts # <<>>

\* no two entries of the list have the same partNumber
OnePerPart(parts) ==
    \A i \in 1..Len(parts), j \in 1..Len(parts) :
        parts[i].partNumber = parts[j].partNumber => i = j

\* C14: in every reachable state, interleaved recordUploadedPart calls
\* included, uploadedParts has at most one entry per partNumber; and a
\* recordUploadedPart that returns leaves one entry of its part number, with
\* its tag, and the entries of the other part numbers as they were.
C14_OneEntryPerPart ==
    [][/\ \A sid \in 1..Len(sessions') : OnePerPart(sessions'[sid].uploadedParts)
       /\ \A p \in Procs :
            (procs[p].op = "record" /\ procs'[p].op = "none" /\ last'.res = "ok") =>
                LET old == sessions[procs[p].sid].uploadedParts
                    new == sessions'[procs[p].sid].uploadedParts
                    part == procs[p].parts[1]
                IN  /\ \E i \in 1..Len(new) : new[i] = part
                    /\ \A i \in 1..Len(old) :
                            old[i].partNumber # part.partNumber => new[i] = old[i]
      ]_vars

\* C15: a recordUploadedPart that returns successfully has its part in the
\* stored uploadedParts and has removed no part that was stored, also when
\* another recordUploadedPart saved between its read and its save: of two
\* interleaved calls for different part numbers that both return, both parts
\* are stored.
C15_NoLostPart ==
    [][\A p \in Procs :
            (procs[p].op = "record" /\ procs'[p].op = "none" /\ last'.res = "ok") =>
                LET old == sessions[procs[p].sid].uploadedParts
                    new == sessions'[procs[p].sid].uploadedParts
                    part == procs[p].parts[1]
                IN  /\ \E i \in 1..Len(new) : new[i] = part
                    /\ \A i \in 1..Len(old) :
                            old[i].partNumber # part.partNumber =>
                                \E j \in 1..Len(new) : new[j] = old[i]
      ]_vars

\* a recordUploadedPart has returned the one part it pushed, having read the
\* session before another call stored a part of a different number: both
\* parts are stored
C15_Witness ==
    /\ last.op = "record"
    /\ last.res = "ok"
    /\ Len(Get(last.resp).uploadedParts) = 1
    /\ LET up == sessions[last.sid].uploadedParts
       IN  /\ Len(up) = 2
           /\ up[1].partNumber # up[2].partNumber
           /\ up[2] = Get(last.resp).uploadedParts[1]

\* the source the priority order picks, as it is given
PriorityDuration(session, explicit) ==
    IF IsSome(explicit) /\ Get(explicit) > 0 THEN Get(explicit)
    ELSE IF ~session.autoDetectDuration /\ IsSome(session.providedDuration)
    THEN Get(session.providedDuration)
    ELSE IF IsSome(session.resolvedDuration) THEN Get(session.resolvedDuration)
    ELSE 0

\* the whole number of seconds nearest to h half seconds, the upper one of two
NearestSecond(h) == IF h % 2 = 0 THEN h ELSE h + 1

\* C16 as stated: the resolved duration is the first applicable of the
\* explicit duration if positive, the session's providedDuration if
\* autoDetectDuration is false, the session's resolvedDuration, and 0.
C16_DurationPriority ==
    (last.op = "resolve") =>
        Get(last.resp).duration = PriorityDuration(sessions[1], Get(last.resp).explicit)

\* C16 amended: the resolved duration is that first applicable source rounded
\* to the nearest whole number of seconds.
C16_DurationPriorityRounded ==
    (last.op = "resolve") =>
        Get(last.resp).duration
            = NearestSecond(PriorityDuration(sessions[1], Get(last.resp).explicit))

\* an explicit positive duration was resolved on a session that has a
\* different providedDuration and autoDetectDuration false
C16_Witness ==
    /\ last.op = "resolve"
    /\ IsSome(Get(last.resp).explicit)
    /\ Get(Get(last.resp).explicit) > 0
    /\ ~sessions[1].autoDetectDuration
    /\ NearestSecond(Get(sessions[1].providedDuration))
            # NearestSecond(Get(Get(last.resp).explicit))

\* h half seconds are a whole number of seconds that is not negative
WholeSeconds(h) == h % 2 = 0 /\ h >= 0

C18_AdapterFailureKeepsSession ==
    [][/\ (last'.op = "complete" /\ last'.res = "StorageError") =>
            /\ sessions' = sessions
            /\ videos' = videos
            /\ \E p \in Procs : procs[p].op = "complete" /\ procs[p].sid = last'.sid
       /\ \A p \in Procs :
            (procs[p].op = "complete" /\ procs[p].pc = "cmp_s3") =>
                \/ procs'[p] = procs[p]
                \/ /\ procs'[p].op = "complete"
                   /\ s3'[sessions[procs[p].sid].uploadId].state = "completed"
                   /\ sessions' = sessions /\ videos' = videos
                \/ /\ last'.op = "complete" /\ last'.res = "StorageError"
                   /\ last'.sid = procs[p].sid
      ]_vars

\* a completeUpload has succeeded on a session after an earlier one on it
\* had failed at the adapter: two requests were sent for its upload
C18_Witness ==
    /\ last.op = "complete"
    /\ last.res = "ok"
    /\ IsSome(Get(last.resp).video)
    /\ s3[sessions[last.sid].uploadId].completeCalls = 2

\* C19: an initiate that ends with the adapter's error persists no session, and
\* every session references a multipart upload that a successful adapter
\* initiate opened, no two sessions the same one.
C19_NoOrphanSession ==
    [][/\ (last'.op = "initiate" /\ last'.res = "StorageError") =>
            /\ sessions' = sessions
            /\ s3' = s3
       /\ \A sid \in 1..Len(sessions') : sessions'[sid].uploadId \in 1..Len(s3')
       /\ \A a \in 1..Len(sessions'), b \in 1..Len(sessions') :
            sessions'[a].uploadId = sessions'[b].uploadId => a = b
      ]_vars

\* an initiate has ended with the adapter's error while one session exists
C19_Witness ==
    /\ last.op = "initiate"
    /\ last.res = "StorageError"
    /\ Len(sessions) = 1
    /\ Len(s3) = 1

\* the input preconditions of initiate
MeetsPreconditions(payload) ==
    /\ payload.mimeType \in {"video/mp4", "video/webm", "video/ogg", "video/mov",
                              "video/avi", "video/quicktime"}
    /\ payload.fileSize <= 5120
    /\ payload.partSize >= 5
    /\ payload.totalParts >= 1
    /\ payload.autoDetectDuration = Some(FALSE) =>
            (IsSome(payload.duration) /\ Get(payload.duration) > 0)

\* the rejections of an initiate for its input
InitiateRejections == {"ValidationError", "UnsupportedType", "FileTooLarge"}

OwnsCourse(user) == Role(user) = "admin" \/ CourseInstructor = user

\* user may act on session sid: an admin or the session's instructor
OwnsSession(user, sid) == Role(user) = "admin" \/ sessions[sid].instructor = user

\* the rejections of a call before its caller is looked at
LookupRejections == {"NotFound", "BadRequest", "UnsupportedType"}

\* a step that touches no session, no video of the course and nothing of the
\* adapter, and leaves slot p free
RejectedUntouched(p) ==
    /\ procs'[p].op = "none"
    /\ sessions' = sessions
    /\ videos' = videos
    /\ s3' = s3

\* the initiate bodies that pass the validation
ValidInitiatePayloads == {x \in InitiatePayloads : ValidInitiateDto(x)}

\* the operation of the call that made a step in slot p
StepOp(p) == IF procs'[p].op # "none" THEN procs'[p].op ELSE last'.op

\* C21: a call of any of the five operations by a caller who is neither an
\* admin nor the instructor (of the course for initiate, of the session for
\* the other four) ends in its first step with a rejection, which is
\* Forbidden whenever the call gets to the check of the caller (for initiate
\* an allowed mime type and an existing course, for the others an existing
\* session of the course named); it sends nothing to the adapter and changes
\* no session and no video of the course.  (A step that is such a Forbidden
\* rejection satisfies all of this, whoever made it.)
C21_OutsiderForbidden ==
    [][\A p \in Procs :
        ( /\ procs[p].pc = "idle" /\ calls' = calls + 1
          /\ ~(RejectedUntouched(p) /\ last'.res = "Forbidden") ) =>
          \A user \in Users, cid \in CourseIds :
            /\ (StepOp(p) = "initiate" /\ ~OwnsCourse(user)) =>
                \A payload \in ValidInitiatePayloads :
                    InitiateBy(p, payload, user, cid) =>
                        /\ RejectedUntouched(p)
                        /\ last'.res \in LookupRejections
                        /\ ~(payload.mimeType \in allowedMimeTypes /\ CourseExists(cid))
            /\ StepOp(p) # "initiate" =>
                \A sid \in 0..Len(sessions) :
                  ( /\ sid \in SessionIds => ~OwnsSession(user, sid)
                    /\ \/ StepOp(p) = "urls" /\ UrlsBy(p, user, cid, sid)
                       \/ StepOp(p) = "record" /\ RecordBy(p, user, cid, sid)
                       \/ StepOp(p) = "complete" /\ CompleteBy(p, user, cid, sid)
                       \/ StepOp(p) = "abort" /\ AbortBy(p, user, cid, sid) ) =>
                      /\ RejectedUntouched(p)
                      /\ last'.res \in LookupRejections
                      /\ ~(sid \in SessionIds /\ sessions[sid].course = cid)
      ]_vars

\* a completeUpload on an existing session has ended with Forbidden
C21_Witness ==
    /\ last.op = "complete"
    /\ last.res = "Forbidden"
    /\ last.sid \in SessionIds
    /\ sessions[last.sid].status = "initiated"

\* C22: served one after the other, a getPartUploadUrls or recordUploadedPart
\* that succeeds on an Initiated session leaves it Uploading, and one that
\* succeeds on an Uploading session leaves it Uploading; one that fails
\* changes no session; and a session goes from Initiated to Uploading at no
\* other step than the end of such a successful call.
C22_UploadingOnFirstUse ==
    [][/\ \A sid \in SessionIds :
            /\ ( /\ last'.op \in {"urls", "record"} /\ last'.res = "ok"
                 /\ last'.sid = sid
                 /\ sessions[sid].status \in {INITIATED, UPLOADING} ) =>
                    sessions'[sid].status = UPLOADING
            /\ (sessions[sid].status = INITIATED /\ sessions'[sid].status = UPLOADING) =>
                    /\ last'.op \in {"urls", "record"} /\ last'.res = "ok"
                    /\ last'.sid = sid
       /\ (last'.op \in {"urls", "record"} /\ last'.res # "ok") => sessions' = sessions
      ]_vars

\* a getPartUploadUrls has succeeded on a session that a recordUploadedPart
\* had moved to Uploading
C22_Witness ==
    /\ last.op = "urls"
    /\ last.res = "ok"
    /\ sessions[last.sid].status = "uploading"
    /\ Len(sessions[last.sid].uploadedParts) = 1

\* C23: served one after the other, failed and retried completeUpload calls
\* included: the course's videos change only by the append of one video, made
\* by a completeUpload the adapter has answered, with order = the number of
\* videos before + 1; the call that appended it then ends successfully with
\* the session Completed; and no session ever has more than one video.
C23_OneVideoPerSession ==
    [][/\ videos' # videos =>
            \E p \in Procs :
                /\ procs[p].op = "complete" /\ procs[p].pc = "cmp_csave"
                /\ s3[sessions[procs[p].sid].uploadId].state = "completed"
                /\ Len(videos') = Len(videos) + 1
                /\ SubSeq(videos', 1, Len(videos)) = videos
                /\ videos'[Len(videos')].order = Len(videos) + 1
                /\ videos'[Len(videos')].videoKey = sessions[procs[p].sid].uploadId
                /\ procs'[p].op = "complete" /\ procs'[p].pc = "cmp_ssave"
       /\ \A p \in Procs :
            (procs[p].pc = "cmp_ssave" /\ procs'[p] # procs[p]) =>
                /\ last'.op = "complete" /\ last'.res = "ok"
                /\ last'.sid = procs[p].sid
                /\ sessions'[procs[p].sid].status = COMPLETED
       /\ \A sid \in 1..Len(sessions') :
            Cardinality({i \in 1..Len(videos') :
                            videos'[i].videoKey = sessions'[sid].uploadId}) <= 1
      ]_vars

\* a completeUpload failed at the adapter, a second one appended the video
\* and a third was answered from the Completed session: one video
C23_Witness ==
    /\ last.op = "complete"
    /\ last.res = "ok"
    /\ Get(last.resp).video = None
    /\ s3[sessions[last.sid].uploadId].completeCalls = 2
    /\ Cardinality(VideosOf(last.sid)) = 1

\* the sessions of (cid, user) in the collection that are Initiated or
\* Uploading
StoredActiveOf(cid, user) == {i \in ActiveSessionsOf(cid, user) : Stored(i)}

\* C24: a session that is Initiated or Uploading when its expiresAt has
\* passed is eventually removed from the collection; the removal changes
\* nothing of the adapter's uploads and sends it no abort; and an initiate
\* that looks for an active session of its (course, instructor) when the only
\* such sessions are removed ones is not rejected with Conflict.
C24_ExpiredSessionReaped ==
    /\ \A sid \in 1..MaxSessions :
            ( /\ sid \in SessionIds
              /\ sessions[sid].ttl = "expired"
              /\ sessions[sid].status \in NonTerminal )
            ~> (sid \in SessionIds /\ sessions[sid].ttl = "removed")
    /\ [][/\ \A sid \in SessionIds :
                (Stored(sid) /\ sessions'[sid].ttl = "removed") =>
                    /\ sessions[sid].ttl = "expired"
                    /\ s3' = s3
                    /\ procs' = procs
           /\ \A p \in Procs :
                ( /\ procs[p].pc = "init_find"
                  /\ StoredActiveOf(procs[p].cid, procs[p].user) = {}
                  /\ procs'[p] # procs[p] ) =>
                    /\ last'.res # "Conflict"
                    /\ procs'[p].pc = "init_s3"
          ]_vars

\* an initiate has succeeded for a (course, instructor) whose earlier session
\* was removed while Initiated, its upload still open at the adapter
C24_Witness ==
    /\ last.op = "initiate"
    /\ last.res = "ok"
    /\ last.sid = 2
    /\ sessions[1].ttl = "removed"
    /\ sessions[1].status = "initiated"
    /\ sessions[1].course = sessions[2].course
    /\ sessions[1].instructor = sessions[2].instructor
    /\ s3[sessions[1].uploadId].state = "open"
    /\ s3[sessions[1].uploadId].abortCalls = 0

\* C25: in every reachable state every session has at most totalParts entries
\* in uploadedParts, and a recordUploadedPart that succeeds returns a count of
\* remaining parts that is not negative.
C25_PartsWithinTotal ==
    /\ \A sid \in SessionIds :
            Len(sessions[sid].uploadedParts) <= sessions[sid].totalParts
    /\ (last.op = "record" /\ last.res = "ok") => Get(last.resp).remainingParts >= 0

\* session sid is Uploading with every part 1..totalParts recorded once, all
\* with the tag t, and a request can be made
AllPartsRecorded(sid, t) ==
    /\ procs["p1"].pc = "idle"
    /\ calls < MaxCalls
    /\ sessions[sid].status = UPLOADING
    /\ Len(sessions[sid].uploadedParts) = sessions[sid].totalParts
    /\ PartNumbersOf(sessions[sid].uploadedParts) = 1..sessions[sid].totalParts
    /\ \A i \in 1..Len(sessions[sid].uploadedParts) : sessions[sid].uploadedParts[i].eTag = t

\* C26: end to end, served one after the other.  On a session whose parts
\* 1..N are all recorded, a completeUpload by its instructor with the recorded
\* pairs passes every check and is sent to the adapter; a completeUpload that
\* waits for the adapter fails only by the adapter's failure; once the adapter
\* has answered, the call appends exactly one video, with order = the number
\* of videos before + 1 and the duration chosen by the resolver, saves the
\* session as Completed with that duration and completedAt, and returns the
\* video.
C26_EndToEnd ==
    [][/\ \A sid \in SessionIds, t \in Tags :
            AllPartsRecorded(sid, t) =>
                ENABLED ( /\ CompleteBy("p1", sessions[sid].instructor,
                                       sessions[sid].course, sid)
                          /\ procs'["p1"].pc = "cmp_s3"
                          /\ procs'["p1"].parts = SortParts(sessions[sid].uploadedParts) )
       /\ LET r == procs["p1"]
          IN  (r.op = "complete" /\ procs'["p1"] # r) =>
                CASE r.pc = "cmp_s3" ->
                        \/ last'.op = "complete" /\ last'.res = "StorageError"
                        \/ /\ procs'["p1"].pc = "cmp_course"
                           /\ procs'["p1"].dur =
                                Some(resolveVideoDuration(sessions[r.sid], r.dur))
                  [] r.pc = "cmp_course" ->
                        /\ procs'["p1"].pc = "cmp_csave"
                        /\ videos' = videos
                  [] r.pc = "cmp_csave" ->
                        /\ procs'["p1"].pc = "cmp_ssave"
                        /\ videos' = Append(videos,
                                [videoKey |-> sessions[r.sid].uploadId,
                                 duration |-> Get(r.dur),
                                 order    |-> Len(videos) + 1])
                  [] r.pc = "cmp_ssave" ->
                        /\ last'.op = "complete" /\ last'.res = "ok"
                        /\ videos' = videos
                        /\ sessions'[r.sid].status = COMPLETED
                        /\ sessions'[r.sid].resolvedDuration = r.dur
                        /\ IsSome(sessions'[r.sid].completedAt)
                        /\ Get(last'.resp).video = Some(videos[Len(videos)])
                        /\ Get(last'.resp).duration = r.dur
      ]_vars

\* initiate, getPartUploadUrls, recordUploadedPart and completeUpload in
\* turn: the session of one part is Completed with its part and its video
C26_Witness ==
    /\ calls = 4
    /\ last.op = "complete"
    /\ last.res = "ok"
    /\ IsSome(Get(last.resp).video)
    /\ sessions[last.sid].status = "completed"
    /\ sessions[last.sid].totalParts = 1
    /\ Len(sessions[last.sid].uploadedParts) = 1
    /\ Len(videos) = 1
    /\ videos[1].order = 1

\* C27: a completeUpload whose completion the adapter has answered with
\* success goes on to its end, where it returns successfully with the session
\* Completed and the session's video in the course.
C27_FinalizedThenCompleted ==
    [][\A p \in Procs :
        ( /\ procs[p].op = "complete"
          /\ procs[p].pc \in {"cmp_course", "cmp_csave", "cmp_ssave"}
          /\ procs'[p].op # "complete" ) =>
            /\ last'.op = "complete" /\ last'.res = "ok"
            /\ sessions'[procs[p].sid].status = COMPLETED
            /\ \E i \in 1..Len(videos') :
                    videos'[i].videoKey = sessions'[procs[p].sid].uploadId
      ]_vars

\* C28: when completeUpload calls of two different sessions of the course
\* interleave, the videos of the course carry pairwise distinct orders that
\* are exactly 1..n; stated for the states where no session has two videos.
C28_OrdersDistinct ==
    (\A i, j \in 1..Len(videos) : videos[i].videoKey = videos[j].videoKey => i = j) =>
        /\ \A i, j \in 1..Len(videos) : videos[i].order = videos[j].order => i = j
        /\ {videos[i].order : i \in 1..Len(videos)} = 1..Len(videos)

C30_SendsRecordedParts ==
    [][\A p \in Procs :
        ( /\ procs[p].pc = "idle"
          /\ procs'[p].op = "complete" /\ procs'[p].pc = "cmp_s3"
          /\ PartNumbersOf(sessions[procs'[p].sid].uploadedParts)
                = 1..sessions[procs'[p].sid].totalParts ) =>
            procs'[p].parts = SortParts(sessions[procs'[p].sid].uploadedParts)
      ]_vars

====
